---- MODULE Spec2Model ----
(***************************************************************************)
(* The workflow orchestration engine of src/main.py: the automation        *)
(* endpoints (start, status), the background execution routine             *)
(* ArxivSummarizer.execute_automation_workflow with its per-type step      *)
(* routines, and the collaborators it calls (search_arxiv, the Ollama      *)
(* analysis calls, _save_workflow_results).                                *)
(*                                                                         *)
(* Scheduling: the application runs on one asyncio event loop.  The        *)
(* variable loop names the task that holds the loop (0: the loop is free   *)
(* and serves HTTP requests).  A statement is a step of the model; the     *)
(* routine keeps the loop from one statement to the next unless the        *)
(* statement suspends (Suspends).                                          *)
(***************************************************************************)
EXTENDS Integers, Sequences, FiniteSets, TLC

\* ------------------------------------------------------------------ bounds
MaxTasks == 2       \* background routines a run has room for
MaxStarts == 1      \* start calls made in a run of Spec
MaxPapers == 1      \* papers the PaperSource returns at most
MaxClock == 2       \* largest value of the logical clock
MaxTokens == 5      \* tokens of a response text handed to the comparison parser
MaxComparePapers == 2   \* papers handed to the comparison parser

Tasks == 1..MaxTasks
\* the 8-character identifiers; one more than can be handed out, so that an
\* identifier no start call ever returned always exists
Ids == 1..(MaxTasks + 1)

None == "None"                      \* Python's None, and an absent dict key
EmptyDict == [k \in {} |-> None]     \* {}

Min(S) == CHOOSE x \in S : \A y \in S : x <= y

\* ------------------------------------------------------------------ types
\* class AutomationType(str, Enum)
AutomationType ==
    { "literature_review", "research_gap_analysis", "methodology_comparison",
      "trend_analysis", "custom_workflow" }

\* the registry of workflow definitions: a dict with one entry per key listed
AUTOMATION_WORKFLOWS ==
    ("literature_review" :>
        [name |-> "Literature Review",
         description |-> "Comprehensive analysis of research papers including summary, comparison, and key findings",
         steps |-> << "search", "summarize", "compare", "synthesize" >>])
    @@ ("research_gap_analysis" :>
        [name |-> "Research Gap Analysis",
         description |-> "Identify gaps and opportunities in current research",
         steps |-> << "search", "compare", "gap_analysis" >>])
    @@ ("methodology_comparison" :>
        [name |-> "Methodology Comparison",
         description |-> "Detailed comparison of research methods and approaches",
         steps |-> << "search", "methodology_analysis", "compare" >>])
    @@ ("trend_analysis" :>
        [name |-> "Trend Analysis",
         description |-> "Analyze research trends and emerging topics",
         steps |-> << "search", "trend_analysis", "future_directions" >>])
    @@ ("custom_workflow" :>
        [name |-> "Custom Workflow",
         description |-> "Custom analysis based on user instructions",
         steps |-> << "search", "custom_analysis" >>])

\* two queries that differ in a space / underscore only
Queries == {"q 1", "q_1"}

\* custom_instructions: Optional[str] = None; "" is a supplied empty string
Instructions == {None, "", "instr"}

\* include_summary / include_comparison / include_trends with their defaults
DefaultToggles ==
    [include_summary |-> TRUE, include_comparison |-> TRUE, include_trends |-> FALSE]

Toggles == {DefaultToggles}

\* class AutomationRequest(BaseModel)
AutomationRequest ==
    [ query : Queries,
      automation_type : AutomationType,
      max_results : {MaxPapers},
      model : {"llama3.2:3b"},
      custom_instructions : Instructions,
      toggles : Toggles ]

\* the requests a run draws from: the instructions are read by the custom
\* workflow alone, so the other types are started without them
Requests ==
    {r \in AutomationRequest :
        r.automation_type # "custom_workflow" => r.custom_instructions = None}

\* class Paper(BaseModel): the i-th entry the index returns for a query
Paper(q, i) ==
    [title |-> <<"title", q, i>>, authors |-> <<"authors", q, i>>,
     summary |-> <<"abstract", q, i>>, link |-> <<"link", q, i>>]

PaperList(q, n) == [i \in 1..n |-> Paper(q, i)]

\* ------------------------------------------------- the Analyzer (Ollama)
\* What one ollama.chat call can do: raise, return text that holds no
\* parseable JSON array, or return a JSON array of six-field records.
ChatKinds == {"raise", "text", "json"}

\* class ComparisonItem(BaseModel): the six fixed fields
ComparisonFields ==
    { "paper_title", "research_focus", "methodology", "tools_techniques",
      "advantages", "limitations" }

\* the prompt a call sends: the task, the combined paper text, the instructions
Prompt(task, papers, instr) == [task |-> task, papers |-> papers, instr |-> instr]

\* a JSON array with one well-formed six-field object per paper of the prompt
WellFormedItems(prompt) ==
    [i \in 1..Len(prompt.papers) |->
        [dict |-> TRUE,
         fields |-> [f \in ComparisonFields |-> <<"llm", f, prompt.papers[i].title>>]]]

\* The lexical content of a response text: a sequence of tokens.  Brackets
\* and commas are tokens of their own; a JSON object {...}, a JSON scalar
\* and a run of prose are one token each (their characters hold no bracket).
\* "lbr_deep" is a run of more opening brackets than the interpreter's
\* recursion limit lets json.loads nest arrays.
Tok(kind) == [kind |-> kind, fields |-> EmptyDict]
Obj(fields) == [kind |-> "obj", fields |-> fields]

\* the text of a JSON array of objects, as a model would print it
RECURSIVE JsonArrayTail(_, _)
JsonArrayTail(items, i) ==
    IF i > Len(items) THEN << Tok("rbr") >>
    ELSE (IF i = 1 THEN <<>> ELSE << Tok("comma") >>)
         \o << Obj(items[i].fields) >> \o JsonArrayTail(items, i + 1)

JsonArray(items) == << Tok("lbr") >> \o JsonArrayTail(items, 1)

\* response['message']['content'] of a call that returned
ChatResponse(kind, prompt) ==
    [kind |-> kind,
     text |-> <<"llm", kind, prompt>>,
     tokens |-> IF kind = "json" THEN JsonArray(WellFormedItems(prompt))
                ELSE << Tok("word") >>]

\* str.find('[') and str.rfind(']'): 0-based index of the first / last
\* occurrence, -1 when there is none
find(tokens, kinds) ==
    LET at == {i \in 1..Len(tokens) : tokens[i].kind \in kinds}
    IN  IF at = {} THEN -1 ELSE Min(at) - 1

rfind(tokens, kinds) ==
    LET at == {i \in 1..Len(tokens) : tokens[i].kind \in kinds}
    IN  IF at = {} THEN -1 ELSE (CHOOSE i \in at : \A j \in at : j <= i) - 1

\* response_text[start:end] for start >= 0 and end >= 0 (empty when start >= end)
Slice(tokens, start, end) == SubSeq(tokens, start + 1, Min({end, Len(tokens)}))

\* json.loads, scanning from the left: the index after the JSON value that
\* starts at token i; 0 when no value starts there (JSONDecodeError); -1
\* when the scanner, descending into a run of brackets, exceeds the
\* recursion limit (RecursionError)
RECURSIVE ValueEnd(_, _), ElementsEnd(_, _)
ValueEnd(tokens, i) ==
    IF i > Len(tokens) THEN 0
    ELSE IF tokens[i].kind \in {"obj", "scalar"} THEN i + 1
    ELSE IF tokens[i].kind = "lbr_deep" THEN -1
    ELSE IF tokens[i].kind = "lbr"
         THEN IF i + 1 <= Len(tokens) /\ tokens[i + 1].kind = "rbr" THEN i + 2
              ELSE ElementsEnd(tokens, i + 1)
    ELSE 0

\* the index after the bracket closing the array whose next element starts at i
ElementsEnd(tokens, i) ==
    LET j == ValueEnd(tokens, i)
    IN  IF j = -1 THEN -1
        ELSE IF j = 0 \/ j > Len(tokens) THEN 0
        ELSE IF tokens[j].kind = "rbr" THEN j + 1
        ELSE IF tokens[j].kind = "comma" THEN ElementsEnd(tokens, j + 1)
        ELSE 0

\* the elements of the array that starts at token 1, from the element at i on
RECURSIVE ArrayItems(_, _)
ArrayItems(tokens, i) ==
    IF tokens[i].kind = "rbr" THEN <<>>
    ELSE LET j == ValueEnd(tokens, i)
             item == [dict |-> tokens[i].kind = "obj", fields |-> tokens[i].fields]
         IN  << item >> \o (IF tokens[j].kind = "rbr" THEN <<>>
                            ELSE ArrayItems(tokens, j + 1))

\* json.loads(json_str): the value when the string is one JSON value,
\* RecursionError when the nesting is too deep, JSONDecodeError otherwise
json_loads(json_str) ==
    IF json_str # <<>> /\ ValueEnd(json_str, 1) = Len(json_str) + 1
    THEN [ok |-> TRUE, error |-> "none",
          list |-> json_str[1].kind = "lbr",
          items |-> IF json_str[1].kind = "lbr" THEN ArrayItems(json_str, 2) ELSE <<>>]
    ELSE [ok |-> FALSE,
          error |-> IF json_str # <<>> /\ ValueEnd(json_str, 1) = -1
                    THEN "RecursionError" ELSE "JSONDecodeError",
          list |-> FALSE, items |-> <<>>]

\* a fixed text of the program, as a value of the kind the model's texts have
T(s) == <<s>>

\* a function's outcome: a returned value or a raised exception
Return(v) == [raised |-> FALSE, value |-> v, error |-> None]
Raise(msg) == [raised |-> TRUE, value |-> None, error |-> msg]

\* str(e) of the HTTPException the search and the two raising analysis
\* functions throw: "<status_code>: <detail>"
HTTPException(detail) == "500: " \o detail

summarize_with_ollama(papers, kind) ==
    IF papers = <<>> THEN Return(T("No papers found for summarization."))
    ELSE IF kind = "raise" THEN Raise(HTTPException("Summarization failed"))
    ELSE Return(ChatResponse(kind, Prompt("summarize", papers, None)).text)

_create_manual_comparison(papers, response_text) ==
    [comparison_table |->
        [i \in 1..Len(papers) |->
            [paper_title |-> papers[i].title,
             research_focus |-> T("Extracted from analysis"),
             methodology |-> T("Based on paper content"),
             tools_techniques |-> T("Detailed in research"),
             advantages |-> T("Key strengths identified"),
             limitations |-> T("Areas for improvement")]],
     comparison_text |-> response_text]

\* item.get(f, T("N/A")) for each of the six fields
ValidatedItem(item) ==
    [f \in ComparisonFields |->
        IF f \in DOMAIN item.fields THEN item.fields[f] ELSE T("N/A")]

IsDict(item) == item.dict

ValidatedData(items) ==
    LET dicts == SelectSeq(items, IsDict)
    IN  [i \in 1..Len(dicts) |-> ValidatedItem(dicts[i])]

\* the try block around json.loads: response_text is the text as a value,
\* tokens its lexical content
ExtractComparison(papers, response_text, tokens) ==
    LET start_idx == find(tokens, {"lbr", "lbr_deep"})
        end_idx == rfind(tokens, {"rbr"}) + 1
    IN  IF start_idx # -1 /\ end_idx # -1
        THEN LET comparison_data == json_loads(Slice(tokens, start_idx, end_idx))
             IN  IF comparison_data.error = "JSONDecodeError"
                 THEN \* except json.JSONDecodeError
                      Return(_create_manual_comparison(papers, response_text))
                 ELSE IF comparison_data.error = "RecursionError"
                 THEN \* except Exception: raise HTTPException(...)
                      Raise(HTTPException("Comparison failed"))
                 ELSE IF comparison_data.list
                 THEN Return([comparison_table |-> ValidatedData(comparison_data.items),
                              comparison_text |-> T("Comparison generated successfully.")])
                 ELSE Return(_create_manual_comparison(papers, response_text))
        ELSE Return(_create_manual_comparison(papers, response_text))

compare_papers_with_ollama(papers, kind) ==
    IF papers = <<>>
    THEN Return([comparison_table |-> <<>>,
                 comparison_text |-> T("No papers found for comparison.")])
    ELSE IF kind = "raise" THEN Raise(HTTPException("Comparison failed"))
    ELSE LET response == ChatResponse(kind, Prompt("compare", papers, None))
         IN  ExtractComparison(papers, response.text, response.tokens)

\* a gap analysis that lets the failure of the model call escape
analyze_research_gaps_raising(papers, kind) ==
    IF papers = <<>> THEN Return(T("No papers found for gap analysis."))
    ELSE IF kind = "raise" THEN Raise(HTTPException("Gap analysis failed"))
    ELSE Return(ChatResponse(kind, Prompt("gap_analysis", papers, None)).text)

analyze_research_gaps(papers, kind) ==
    IF papers = <<>> THEN Return(T("No papers found for gap analysis."))
    ELSE IF kind = "raise" THEN Return(<<"Gap analysis failed", papers>>)
    ELSE Return(ChatResponse(kind, Prompt("gap_analysis", papers, None)).text)

analyze_trends(papers, kind) ==
    IF papers = <<>> THEN Return(T("No papers found for trend analysis."))
    ELSE IF kind = "raise" THEN Return(<<"Trend analysis failed", papers>>)
    ELSE Return(ChatResponse(kind, Prompt("trend_analysis", papers, None)).text)

_perform_custom_analysis(papers, instructions, kind) ==
    IF kind = "raise" THEN Return(<<"Custom analysis failed", papers>>)
    ELSE Return(ChatResponse(kind, Prompt("custom", papers, instructions)).text)

\* ---------------------------------------------- local synthesis steps
_extract_key_findings(summary, gap_analysis) ==
    [head |-> "Key findings synthesized from analysis",
     summary_highlights |-> summary, gap_insights |-> gap_analysis]

_generate_recommendations(gap_analysis) ==
    [head |-> "Research recommendations based on identified gaps",
     text |-> gap_analysis]

_extract_methodology_insights(comparison) ==
    [head |-> "Methodology Insights",
     lines |-> IF "comparison_table" \in DOMAIN comparison
               THEN [i \in 1..Len(comparison.comparison_table) |->
                        <<comparison.comparison_table[i].paper_title,
                          comparison.comparison_table[i].methodology>>]
               ELSE <<>>]

_extract_future_directions(trend_analysis) ==
    [head |-> "Future research directions based on trends",
     text |-> trend_analysis]

\* ------------------------------------------------------------------ state
VARIABLES
    active_workflows,  \* summarizer.active_workflows: workflow_id -> state dict
    wid,               \* per task: the workflow_id the endpoint generated (0: none yet)
    request,           \* per task: the AutomationRequest it was started with
    pc,                \* per task: the statement of the routine it is at
    ip,                \* per task: index of the next statement of its step routine
    papers,            \* per task: local variable papers
    results,           \* per task: local variable results
    exc,               \* per task: str(e) of the exception being handled
    log,               \* per task: the calls it made to PaperSource, Analyzer, ResultStore
    files,             \* the workflows/ directory: filename -> document
    now,               \* datetime.now(), a logical clock
    loop,              \* the task holding the event loop (0: free)
    resp,              \* the response of the endpoint call just served
    compare_call,      \* one call of the comparison parser: its input and result
    updates            \* per task: the progress dicts it has written, in order

vars == << active_workflows, wid, request, pc, ip, papers, results, exc, log,
           files, now, loop, resp, compare_call, updates >>

NoResp == [op |-> "none", id |-> 0, code |-> 0, body |-> EmptyDict]

\* a task slot no start call has filled yet
NoRequest == EmptyDict

\* progress dict
Progress(step_name, current, total) ==
    [current_step |-> current, total_steps |-> total, step_name |-> step_name]

\* no call of the comparison parser is under observation
NoCall == [papers |-> <<>>, response_text |-> <<>>, result |-> EmptyDict]

Init ==
    /\ compare_call = NoCall
    /\ updates = [t \in Tasks |-> <<>>]
    /\ active_workflows = EmptyDict
    /\ wid = [t \in Tasks |-> 0]
    /\ request = [t \in Tasks |-> NoRequest]
    /\ pc = [t \in Tasks |-> "idle"]
    /\ ip = [t \in Tasks |-> 0]
    /\ papers = [t \in Tasks |-> <<>>]
    /\ results = [t \in Tasks |-> EmptyDict]
    /\ exc = [t \in Tasks |-> None]
    /\ log = [t \in Tasks |-> <<>>]
    /\ files = EmptyDict
    /\ now = MaxClock     \* Spec observes a window in which the clock stands still
    /\ loop = 0
    /\ resp = NoResp

\* ------------------------------------------------------------ scheduling
\* the calls made the asynchronous way: the routine is suspended while a
\* call is under way
Suspends_AtCalls(position) == position \in {"search", "call", "save"}

\* whether the statement at this position hands the event loop back before
\* the next one runs: search_arxiv (requests.get), ollama.chat and the file
\* write are blocking calls, and every await is on a coroutine that runs to
\* its end without suspending
Suspends(position) == FALSE

\* task t may run its next statement: it holds the loop, or the loop is free
\* and t is a scheduled or suspended routine
CanRun(t) ==
    \/ loop = t
    \/ loop = 0 /\ pc[t] \notin {"idle", "done"}

\* the loop after task t ran the statement at position and moved to position next
LoopAfter(t, position, next) ==
    IF next = "done" \/ Suspends(position) THEN 0 ELSE t

\* datetime.now(): the clock may have advanced since it was last read
ClockReads == {c \in now..(now + 1) : c <= MaxClock}

\* ------------------------------------------------- the PaperSource (arXiv)
\* what one arXiv query can do: fail, or return n entries (n may be 0)
SearchOutcomes ==
    {[raised |-> TRUE, n |-> 0]} \cup {[raised |-> FALSE, n |-> k] : k \in 0..MaxPapers}

\* a search that swallows the failure and returns no papers
search_arxiv_swallow(query, max_results, outcome) ==
    IF outcome.raised THEN Return(<<>>)
    ELSE Return(PaperList(query, IF outcome.n <= max_results THEN outcome.n ELSE max_results))

search_arxiv(query, max_results, outcome) ==
    IF outcome.raised THEN Raise(HTTPException("arXiv search failed"))
    ELSE Return(PaperList(query, IF outcome.n <= max_results THEN outcome.n ELSE max_results))

\* --------------------------------------------------- the step routines
\* a statement of a step routine: a progress update, an analysis call, or a
\* local synthesis
ProgressStmt(step_name, current, total) ==
    [op |-> "progress", name |-> step_name, cur |-> current, total |-> total]
CallStmt(task) == [op |-> "call", name |-> task, cur |-> 0, total |-> 0]
SynthStmt(key) == [op |-> "synth", name |-> key, cur |-> 0, total |-> 0]

_execute_literature_review ==
    << ProgressStmt("Generating Summary", 2, 5), CallStmt("summarize"),
       ProgressStmt("Comparing Papers", 3, 5), CallStmt("compare"),
       ProgressStmt("Analyzing Gaps", 4, 5), CallStmt("gap_analysis"),
       ProgressStmt("Finalizing", 5, 5), SynthStmt("key_findings") >>

\* the gap analysis called before the comparison
_execute_gap_analysis_reordered ==
    << ProgressStmt("Comparing Papers", 2, 4), CallStmt("gap_analysis"),
       ProgressStmt("Analyzing Gaps", 3, 4), CallStmt("compare"),
       ProgressStmt("Generating Recommendations", 4, 4), SynthStmt("recommendations") >>

_execute_gap_analysis ==
    << ProgressStmt("Comparing Papers", 2, 4), CallStmt("compare"),
       ProgressStmt("Analyzing Gaps", 3, 4), CallStmt("gap_analysis"),
       ProgressStmt("Generating Recommendations", 4, 4), SynthStmt("recommendations") >>

\* the methodology analysis reported before the comparison, as the registry
\* lists the two steps
_execute_methodology_comparison_swapped ==
    << ProgressStmt("Methodology Analysis", 3, 3), CallStmt("compare"),
       ProgressStmt("Detailed Comparison", 2, 3), SynthStmt("methodology_insights") >>

_execute_methodology_comparison ==
    << ProgressStmt("Detailed Comparison", 2, 3), CallStmt("compare"),
       ProgressStmt("Methodology Analysis", 3, 3), SynthStmt("methodology_insights") >>

\* a trend analysis that also stores a summary
_execute_trend_analysis_summarized ==
    << ProgressStmt("Trend Analysis", 2, 3), CallStmt("summarize"),
       CallStmt("trend_analysis"),
       ProgressStmt("Future Directions", 3, 3), SynthStmt("future_directions") >>

_execute_trend_analysis ==
    << ProgressStmt("Trend Analysis", 2, 3), CallStmt("trend_analysis"),
       ProgressStmt("Future Directions", 3, 3), SynthStmt("future_directions") >>

\* the custom analysis run whether or not instructions were given
_execute_custom_workflow_always(req) ==
    << ProgressStmt("Custom Analysis", 2, 3), CallStmt("custom") >>

\* if request.custom_instructions: (None and "" are both falsy)
_execute_custom_workflow(req) ==
    IF req.custom_instructions \notin {None, ""}
    THEN << ProgressStmt("Custom Analysis", 2, 3), CallStmt("custom") >>
    ELSE << >>

\* a dispatch that reads include_trends: a literature review asked for trends
\* runs the trend analysis after its own steps
Dispatch_WithTrends(req) ==
    IF req.automation_type = "literature_review"
    THEN IF req.toggles.include_trends
         THEN _execute_literature_review \o << CallStmt("trend_analysis") >>
         ELSE _execute_literature_review
    ELSE IF req.automation_type = "research_gap_analysis" THEN _execute_gap_analysis
    ELSE IF req.automation_type = "methodology_comparison" THEN _execute_methodology_comparison
    ELSE IF req.automation_type = "trend_analysis" THEN _execute_trend_analysis
    ELSE _execute_custom_workflow(req)

\* an if/elif chain that names no routine for the custom type
Dispatch_NoCustomBranch(req) ==
    IF req.automation_type = "literature_review" THEN _execute_literature_review
    ELSE IF req.automation_type = "research_gap_analysis" THEN _execute_gap_analysis
    ELSE IF req.automation_type = "methodology_comparison" THEN _execute_methodology_comparison
    ELSE IF req.automation_type = "trend_analysis" THEN _execute_trend_analysis
    ELSE << >>

\* the if/elif chain on request.automation_type
Dispatch(req) ==
    IF req.automation_type = "literature_review" THEN _execute_literature_review
    ELSE IF req.automation_type = "research_gap_analysis" THEN _execute_gap_analysis
    ELSE IF req.automation_type = "methodology_comparison" THEN _execute_methodology_comparison
    ELSE IF req.automation_type = "trend_analysis" THEN _execute_trend_analysis
    ELSE IF req.automation_type = "custom_workflow" THEN _execute_custom_workflow(req)
    ELSE << >>

\* the results key an analysis call's value is stored under
ResultKey(task) ==
    CASE task = "summarize" -> "summary"
      [] task = "compare" -> "comparison"
      [] task = "gap_analysis" -> "gap_analysis"
      [] task = "trend_analysis" -> "trend_analysis"
      [] task = "custom" -> "custom_analysis"

\* what the call of an analysis step returns or raises
Analyze(task, paperlist, req, kind) ==
    CASE task = "summarize" -> summarize_with_ollama(paperlist, kind)
      [] task = "compare" -> compare_papers_with_ollama(paperlist, kind)
      [] task = "gap_analysis" -> analyze_research_gaps(paperlist, kind)
      [] task = "trend_analysis" -> analyze_trends(paperlist, kind)
      [] task = "custom" -> _perform_custom_analysis(paperlist, req.custom_instructions, kind)

\* the outcomes of the model call that make a difference to the step
OutcomesOf(task) == IF task = "compare" THEN ChatKinds ELSE {"raise", "text"}

\* the value a synthesis step computes from the results so far
Synthesize(key, res) ==
    CASE key = "key_findings" -> _extract_key_findings(res["summary"], res["gap_analysis"])
      [] key = "recommendations" -> _generate_recommendations(res["gap_analysis"])
      [] key = "methodology_insights" -> _extract_methodology_insights(res["comparison"])
      [] key = "future_directions" -> _extract_future_directions(res["trend_analysis"])

\* d[key] = value
DictSet(d, key, value) == (key :> value) @@ d

\* ------------------------------------------------ workflow-state updates
\* the dict execute registers as its first statement
InitialState(created, updated) ==
    [status |-> "running",
     progress |-> Progress("Initializing", 0, 0),
     results |-> EmptyDict,
     error |-> None,
     created_at |-> created,
     updated_at |-> updated]

_update_workflow_progress(aw, workflow_id, step_name, current, total, time) ==
    IF workflow_id \in DOMAIN aw
    THEN [aw EXCEPT ![workflow_id].progress = Progress(step_name, current, total),
                    ![workflow_id].updated_at = time]
    ELSE aw

\* zero papers recorded as a failure
NoPapersUpdate_Failed(state) ==
    [state EXCEPT !.status = "failed",
                  !.error = "No papers found for the given query"]

\* the early return taken without the update
NoPapersUpdate_Forgot(state) == state

\* .update({"status": "completed", "error": "No papers found ..."})
NoPapersUpdate(state) ==
    [state EXCEPT !.status = "completed",
                  !.error = "No papers found for the given query"]

\* the status set to completed while the results are not yet stored
CompletedUpdate_StatusOnly(state, res, time) ==
    [state EXCEPT !.status = "completed", !.updated_at = time]

\* .update({"status": "completed", "results": results, "updated_at": now})
CompletedUpdate(state, res, time) ==
    [state EXCEPT !.status = "completed", !.results = res, !.updated_at = time]

\* a failure update that also resets the progress
FailedUpdate_ResetProgress(state, message, time) ==
    [state EXCEPT !.status = "failed", !.error = message, !.updated_at = time,
                  !.progress = Progress("Failed", 0, 0)]

\* .update({"status": "failed", "error": str(e), "updated_at": now})
FailedUpdate(state, message, time) ==
    [state EXCEPT !.status = "failed", !.error = message, !.updated_at = time]

\* the results written into a dict the routines share (what the other
\* routines stored stays in it)
RECURSIVE Merged(_, _)
Merged(S, d) ==
    IF S = {} THEN d
    ELSE LET u == Min(S) IN Merged(S \ {u}, d @@ results[u])

InitialResults_Shared(t, paperlist, req) ==
    Merged(Tasks \ {t},
           [papers_found |-> Len(paperlist),
            papers |-> paperlist,
            workflow_type |-> req.automation_type])

\* results = {"papers_found": ..., "papers": ..., "workflow_type": ...}
InitialResults(t, paperlist, req) ==
    [papers_found |-> Len(paperlist),
     papers |-> paperlist,
     workflow_type |-> req.automation_type]

\* query.replace(' ', '_')
replace_spaces(query) == IF query = "q 1" THEN "q_1" ELSE query

\* a file name without the workflow ID
Filename_NoId(query, timestamp, workflow_id) == <<replace_spaces(query), timestamp, 0>>

\* f"workflows/{query.replace(' ', '_')}_{timestamp}_{workflow_id}.json": the
\* timestamp (%Y%m%d_%H%M%S) and the 8-character ID have fixed widths, so the
\* name is determined by, and determines, the three parts
Filename(query, timestamp, workflow_id) == <<replace_spaces(query), timestamp, workflow_id>>

\* ------------------------------------------------------------ endpoints
\* str(uuid.uuid4())[:8]: the identifier the generator returns, taken to
\* differ from every identifier handed out before.  The identifiers are
\* interchangeable, so the least unused one stands for any of them.
uuid4 ==
    LET fresh == Ids \ {wid[t] : t \in Tasks}
    IN  IF fresh = {} THEN {} ELSE {Min(fresh)}

\* POST /api/automation/execute: generate the ID, add the background task,
\* answer at once
StartWorkflow(t, req, workflow_id) ==
    /\ loop = 0
    /\ pc[t] = "idle"
    /\ \A u \in Tasks : u < t => pc[u] # "idle"
    /\ wid' = [wid EXCEPT ![t] = workflow_id]
    /\ request' = [request EXCEPT ![t] = req]
    /\ pc' = [pc EXCEPT ![t] = "register"]
    /\ resp' = [op |-> "start", id |-> workflow_id, code |-> 200,
                body |-> [success |-> TRUE, workflow_id |-> workflow_id,
                          status |-> "started",
                          progress |-> Progress("Initializing", 0, 0)]]
    /\ UNCHANGED << compare_call, updates, active_workflows, ip, papers, results, exc, log, files, now, loop >>

\* the response of GET /api/automation/status/{workflow_id}
StatusResponse(aw, workflow_id) ==
    IF workflow_id \notin DOMAIN aw
    THEN [op |-> "status", id |-> workflow_id, code |-> 404,
          body |-> [detail |-> "Workflow not found"]]
    ELSE [op |-> "status", id |-> workflow_id, code |-> 200,
          body |-> [workflow_id |-> workflow_id,
                    status |-> aw[workflow_id].status,
                    progress |-> aw[workflow_id].progress,
                    results |-> aw[workflow_id].results,
                    error |-> aw[workflow_id].error,
                    created_at |-> aw[workflow_id].created_at,
                    updated_at |-> aw[workflow_id].updated_at]]

\* a lookup that inserts a default state for an unknown ID (setdefault)
get_workflow_status_setdefault(workflow_id) ==
    /\ loop = 0
    /\ active_workflows' =
           IF workflow_id \in DOMAIN active_workflows THEN active_workflows
           ELSE (workflow_id :> InitialState(now, now)) @@ active_workflows
    /\ resp' = StatusResponse(active_workflows', workflow_id)
    /\ UNCHANGED << compare_call, updates, wid, request, pc, ip, papers, results, exc,
                    log, files, now, loop >>

get_workflow_status(workflow_id) ==
    /\ loop = 0
    /\ resp' = StatusResponse(active_workflows, workflow_id)
    /\ UNCHANGED << compare_call, updates, active_workflows, wid, request, pc, ip, papers, results, exc,
                    log, files, now, loop >>

\* ------------------------------------- execute_automation_workflow (routine)
\* self.active_workflows[workflow_id] = {...}
Register(t) ==
    /\ CanRun(t)
    /\ pc[t] = "register"
    /\ \E created \in ClockReads :
         \E updated \in {c \in created..(created + 1) : c <= MaxClock} :
            /\ active_workflows' =
                   (wid[t] :> InitialState(created, updated)) @@ active_workflows
            /\ now' = updated
    /\ pc' = [pc EXCEPT ![t] = "progress_search"]
    /\ loop' = LoopAfter(t, "register", "progress_search")
    /\ resp' = NoResp
    /\ UNCHANGED << compare_call, updates, wid, request, ip, papers, results, exc, log, files >>

\* self._update_workflow_progress(workflow_id, "Searching arXiv", 1, 5)
SearchProgress(t) ==
    /\ CanRun(t)
    /\ pc[t] = "progress_search"
    /\ \E time \in ClockReads :
         /\ active_workflows' =
                _update_workflow_progress(active_workflows, wid[t],
                                          "Searching arXiv", 1, 5, time)
         /\ now' = time
    /\ updates' = [updates EXCEPT ![t] = Append(@, Progress("Searching arXiv", 1, 5))]
    /\ pc' = [pc EXCEPT ![t] = "search"]
    /\ loop' = LoopAfter(t, "progress_search", "search")
    /\ resp' = NoResp
    /\ UNCHANGED << compare_call, wid, request, ip, papers, results, exc, log, files >>

\* papers = self.search_arxiv(request.query, request.max_results)
Search(t) ==
    /\ CanRun(t)
    /\ pc[t] = "search"
    /\ \E outcome \in SearchOutcomes :
         LET r == search_arxiv(request[t].query, request[t].max_results, outcome)
             next == IF r.raised THEN "except"
                     ELSE IF r.value = <<>> THEN "no_papers" ELSE "init_results"
         IN  /\ papers' = [papers EXCEPT ![t] = IF r.raised THEN <<>> ELSE r.value]
             /\ exc' = [exc EXCEPT ![t] = r.error]
             /\ log' = [log EXCEPT ![t] =
                           Append(@, [svc |-> "search", arg |-> request[t].query,
                                      outcome |-> IF outcome.raised THEN "raise" ELSE "return",
                                      n |-> IF r.raised THEN 0 ELSE Len(r.value)])]
             /\ pc' = [pc EXCEPT ![t] = next]
             /\ loop' = LoopAfter(t, "search", next)
    /\ now' \in ClockReads      \* the blocking HTTP request takes time
    /\ resp' = NoResp
    /\ UNCHANGED << compare_call, updates, active_workflows, wid, request, ip, results, files >>

\* the zero-papers branch with its return statement missing: the routine goes
\* on to record results and run the steps
NoPapers_NoReturn(t) ==
    /\ CanRun(t)
    /\ pc[t] = "no_papers"
    /\ active_workflows' =
           [active_workflows EXCEPT ![wid[t]] = NoPapersUpdate(@)]
    /\ pc' = [pc EXCEPT ![t] = "init_results"]
    /\ loop' = LoopAfter(t, "no_papers", "init_results")
    /\ resp' = NoResp
    /\ UNCHANGED << compare_call, updates, wid, request, ip, papers, results, exc, log, files, now >>

\* if not papers: update(status completed, error note); return
NoPapers(t) ==
    /\ CanRun(t)
    /\ pc[t] = "no_papers"
    /\ active_workflows' =
           [active_workflows EXCEPT ![wid[t]] = NoPapersUpdate(@)]
    /\ pc' = [pc EXCEPT ![t] = "done"]
    /\ loop' = LoopAfter(t, "no_papers", "done")
    /\ resp' = NoResp
    /\ UNCHANGED << compare_call, updates, wid, request, ip, papers, results, exc, log, files, now >>

\* the return from the step routine going straight to the completion
\* update, the results never saved
AfterStmt_SkipSave(t, i) == IF i >= Len(Dispatch(request[t])) THEN "complete" ELSE "steps"

\* where the routine goes once statement i of its step routine has run
AfterStmt(t, i) == IF i >= Len(Dispatch(request[t])) THEN "save" ELSE "steps"

\* results = {...}, then the dispatch on the workflow type
InitResults(t) ==
    /\ CanRun(t)
    /\ pc[t] = "init_results"
    /\ results' = [results EXCEPT ![t] = InitialResults(t, papers[t], request[t])]
    /\ ip' = [ip EXCEPT ![t] = 1]
    /\ pc' = [pc EXCEPT ![t] = AfterStmt(t, 0)]
    /\ loop' = LoopAfter(t, "init_results", AfterStmt(t, 0))
    /\ resp' = NoResp
    /\ UNCHANGED << compare_call, updates, active_workflows, wid, request, papers, exc, log, files, now >>

CurrentStmt(t) == Dispatch(request[t])[ip[t]]

AtStmt(t, op) ==
    /\ CanRun(t)
    /\ pc[t] = "steps"
    /\ CurrentStmt(t).op = op

\* a step routine's self._update_workflow_progress(workflow_id, name, i, n)
ProgressStep(t) ==
    /\ AtStmt(t, "progress")
    /\ \E time \in ClockReads :
         /\ active_workflows' =
                _update_workflow_progress(active_workflows, wid[t],
                    CurrentStmt(t).name, CurrentStmt(t).cur, CurrentStmt(t).total, time)
         /\ now' = time
    /\ updates' = [updates EXCEPT ![t] =
                       Append(@, Progress(CurrentStmt(t).name, CurrentStmt(t).cur,
                                          CurrentStmt(t).total))]
    /\ ip' = [ip EXCEPT ![t] = @ + 1]
    /\ pc' = [pc EXCEPT ![t] = AfterStmt(t, ip[t])]
    /\ loop' = LoopAfter(t, "progress", AfterStmt(t, ip[t]))
    /\ resp' = NoResp
    /\ UNCHANGED << compare_call, wid, request, papers, results, exc, log, files >>

\* a step routine's "x = await self.<analysis>(papers, ...); results[key] = x"
AnalyzerStep(t) ==
    /\ AtStmt(t, "call")
    /\ \E kind \in OutcomesOf(CurrentStmt(t).name) :
         LET task == CurrentStmt(t).name
             r == Analyze(task, papers[t], request[t], kind)
             next == IF r.raised THEN "except" ELSE AfterStmt(t, ip[t])
         IN  /\ results' = [results EXCEPT ![t] =
                               IF r.raised THEN @ ELSE DictSet(@, ResultKey(task), r.value)]
             /\ exc' = [exc EXCEPT ![t] = r.error]
             /\ log' = [log EXCEPT ![t] =
                           Append(@, [svc |-> "analyze", arg |-> task, outcome |-> kind,
                                      n |-> 0])]
             /\ pc' = [pc EXCEPT ![t] = next]
             /\ loop' = LoopAfter(t, "call", next)
    /\ ip' = [ip EXCEPT ![t] = @ + 1]
    /\ now' \in ClockReads      \* the blocking model call takes time
    /\ resp' = NoResp
    /\ UNCHANGED << compare_call, updates, active_workflows, wid, request, papers, files >>

\* a step routine's results[key] = self._extract_...(...)
SynthStep(t) ==
    /\ AtStmt(t, "synth")
    /\ results' = [results EXCEPT ![t] =
                      DictSet(@, CurrentStmt(t).name, Synthesize(CurrentStmt(t).name, @))]
    /\ ip' = [ip EXCEPT ![t] = @ + 1]
    /\ pc' = [pc EXCEPT ![t] = AfterStmt(t, ip[t])]
    /\ loop' = LoopAfter(t, "synth", AfterStmt(t, ip[t]))
    /\ resp' = NoResp
    /\ UNCHANGED << compare_call, updates, active_workflows, wid, request, papers, exc, log, files, now >>

\* a save that lets the write error escape to the routine's except handler
Save_Raises(t) ==
    /\ CanRun(t)
    /\ pc[t] = "save"
    /\ \E time \in ClockReads, written \in BOOLEAN :
         LET filename == Filename(request[t].query, time, wid[t])
         IN  /\ files' = IF written THEN DictSet(files, filename, results[t]) ELSE files
             /\ log' = [log EXCEPT ![t] =
                           Append(@, [svc |-> "save", arg |-> filename,
                                      outcome |-> IF written THEN "written" ELSE "error",
                                      n |-> 0])]
             /\ now' = time
             /\ pc' = [pc EXCEPT ![t] = IF written THEN "complete" ELSE "except"]
             /\ exc' = [exc EXCEPT ![t] = IF written THEN @ ELSE "write failed"]
    /\ loop' = t
    /\ resp' = NoResp
    /\ UNCHANGED << compare_call, updates, active_workflows, wid, request, ip, papers, results >>

\* self._save_workflow_results(workflow_id, request.query, results): the
\* write may fail; the failure is logged and None returned
Save(t) ==
    /\ CanRun(t)
    /\ pc[t] = "save"
    /\ \E time \in ClockReads, written \in BOOLEAN :
         LET filename == Filename(request[t].query, time, wid[t])
         IN  /\ files' = IF written THEN DictSet(files, filename, results[t]) ELSE files
             /\ log' = [log EXCEPT ![t] =
                           Append(@, [svc |-> "save", arg |-> filename,
                                      outcome |-> IF written THEN "written" ELSE "error",
                                      n |-> 0])]
             /\ now' = time
    /\ pc' = [pc EXCEPT ![t] = "complete"]
    /\ loop' = LoopAfter(t, "save", "complete")
    /\ resp' = NoResp
    /\ UNCHANGED << compare_call, updates, active_workflows, wid, request, ip, papers, results, exc >>

\* a completion that drops the entry of the finished workflow from the map
Complete_Evict(t) ==
    /\ CanRun(t)
    /\ pc[t] = "complete"
    /\ \E time \in ClockReads :
         /\ active_workflows' =
                [id \in DOMAIN active_workflows \ {wid[t]} |-> active_workflows[id]]
         /\ now' = time
    /\ pc' = [pc EXCEPT ![t] = "done"]
    /\ loop' = LoopAfter(t, "complete", "done")
    /\ resp' = NoResp
    /\ UNCHANGED << compare_call, updates, wid, request, ip, papers, results, exc, log, files >>

\* self.active_workflows[workflow_id].update({"status": "completed", ...})
Complete(t) ==
    /\ CanRun(t)
    /\ pc[t] = "complete"
    /\ \E time \in ClockReads :
         /\ active_workflows' =
                [active_workflows EXCEPT ![wid[t]] = CompletedUpdate(@, results[t], time)]
         /\ now' = time
    /\ pc' = [pc EXCEPT ![t] = "done"]
    /\ loop' = LoopAfter(t, "complete", "done")
    /\ resp' = NoResp
    /\ UNCHANGED << compare_call, updates, wid, request, ip, papers, results, exc, log, files >>

\* except Exception as e: update({"status": "failed", "error": str(e), ...})
HandleException(t) ==
    /\ CanRun(t)
    /\ pc[t] = "except"
    /\ \E time \in ClockReads :
         /\ active_workflows' =
                [active_workflows EXCEPT ![wid[t]] = FailedUpdate(@, exc[t], time)]
         /\ now' = time
    /\ pc' = [pc EXCEPT ![t] = "done"]
    /\ loop' = LoopAfter(t, "except", "done")
    /\ resp' = NoResp
    /\ UNCHANGED << compare_call, updates, wid, request, ip, papers, results, exc, log, files >>

\* the start endpoint has handed task t to BackgroundTasks
Started(t) == pc[t] # "idle"

\* one statement of the background routine of task t
Execute(t) ==
    \/ Register(t)
    \/ SearchProgress(t)
    \/ Search(t)
    \/ NoPapers(t)
    \/ InitResults(t)
    \/ ProgressStep(t)
    \/ AnalyzerStep(t)
    \/ SynthStep(t)
    \/ Save(t)
    \/ Complete(t)
    \/ HandleException(t)

\* the default toggles and each toggle flipped on its own
ToggleValues ==
    { DefaultToggles,
      [DefaultToggles EXCEPT !.include_summary = FALSE],
      [DefaultToggles EXCEPT !.include_comparison = FALSE],
      [DefaultToggles EXCEPT !.include_trends = TRUE] }

\* the requests for one query under every toggle value
ToggleRequests ==
    {[r EXCEPT !.toggles = g] :
        r \in {q \in Requests : q.query = "q 1" /\ q.custom_instructions # ""},
        g \in ToggleValues}

\* a client that starts up to MaxStarts workflows and polls any identifier
Next ==
    \/ \E t \in 1..MaxStarts, req \in Requests, workflow_id \in uuid4 :
          StartWorkflow(t, req, workflow_id)
    \/ \E workflow_id \in Ids : get_workflow_status(workflow_id)
    \/ \E t \in Tasks : Execute(t)

Spec == Init /\ [][Next]_vars

\* clients that start as many workflows as there are routines
NextConcurrent ==
    \/ \E t \in Tasks, req \in Requests, workflow_id \in uuid4 :
          StartWorkflow(t, req, workflow_id)
    \/ \E workflow_id \in Ids : get_workflow_status(workflow_id)
    \/ \E t \in Tasks : Execute(t)

SpecConcurrent == Init /\ [][NextConcurrent]_vars

\* clients whose requests set the three include_* fields
NextToggles ==
    \/ \E t \in Tasks, req \in ToggleRequests, workflow_id \in uuid4 :
          StartWorkflow(t, req, workflow_id)
    \/ \E workflow_id \in Ids : get_workflow_status(workflow_id)
    \/ \E t \in Tasks : Execute(t)

SpecToggles == Init /\ [][NextToggles]_vars

\* the same program observed from a moment at which the clock has room to
\* advance
InitClock ==
    /\ compare_call = NoCall
    /\ updates = [t \in Tasks |-> <<>>]
    /\ active_workflows = EmptyDict
    /\ wid = [t \in Tasks |-> 0]
    /\ request = [t \in Tasks |-> NoRequest]
    /\ pc = [t \in Tasks |-> "idle"]
    /\ ip = [t \in Tasks |-> 0]
    /\ papers = [t \in Tasks |-> <<>>]
    /\ results = [t \in Tasks |-> EmptyDict]
    /\ exc = [t \in Tasks |-> None]
    /\ log = [t \in Tasks |-> <<>>]
    /\ files = EmptyDict
    /\ now = 0
    /\ loop = 0
    /\ resp = NoResp

SpecClock == InitClock /\ [][Next]_vars

\* BackgroundTasks runs every routine it was handed once the response is
\* sent, and every call a routine makes returns or raises: a routine that can
\* take its next statement eventually takes it.  (Every statement moves the
\* routine's position, so << pc, ip >> tells an Execute step from a stutter.)
SpecFair ==
    Init /\ [][Next]_vars /\ \A t \in Tasks : WF_<< pc, ip >>(Started(t) /\ Execute(t))

\* str(uuid.uuid4())[:8] with nothing taken for granted: 32 random bits, so
\* the generator may return an identifier it returned before.  Up to the
\* names of the identifiers the outcomes are: one handed out before, or the
\* least unused one.
uuid4_truncated == {wid[t] : t \in {u \in Tasks : Started(u)}} \cup uuid4

NextCollide ==
    \/ \E t \in Tasks, req \in Requests, workflow_id \in uuid4_truncated :
          StartWorkflow(t, req, workflow_id)
    \/ \E workflow_id \in Ids : get_workflow_status(workflow_id)
    \/ \E t \in Tasks : Execute(t)

SpecCollide == Init /\ [][NextCollide]_vars

\* --------------------------------- the comparison parser on its own
\* the JSON objects a response text may hold: all six fields, one field
\* only, the six fields and one more
ObjectFields ==
    { [f \in ComparisonFields |-> <<"llm", f>>],
      [f \in {"paper_title"} |-> <<"llm", f>>],
      [f \in ComparisonFields \cup {"novelty"} |-> <<"llm", f>>] }

Alphabet ==
    {Tok(k) : k \in {"lbr", "lbr_deep", "rbr", "comma", "word", "scalar"}}
        \cup {Obj(fields) : fields \in ObjectFields}

\* the response texts of at most MaxTokens tokens
ResponseTexts == UNION {[1..n -> Alphabet] : n \in 0..MaxTokens}

InitCompare ==
    /\ compare_call \in
          {[papers |-> PaperList("q 1", n), response_text |-> text, result |-> EmptyDict] :
              n \in 1..MaxComparePapers, text \in ResponseTexts}
    /\ active_workflows = EmptyDict
    /\ wid = [t \in Tasks |-> 0]
    /\ request = [t \in Tasks |-> NoRequest]
    /\ pc = [t \in Tasks |-> "idle"]
    /\ ip = [t \in Tasks |-> 0]
    /\ papers = [t \in Tasks |-> <<>>]
    /\ results = [t \in Tasks |-> EmptyDict]
    /\ exc = [t \in Tasks |-> None]
    /\ log = [t \in Tasks |-> <<>>]
    /\ files = EmptyDict
    /\ now = MaxClock
    /\ loop = 0
    /\ resp = NoResp
    /\ updates = [t \in Tasks |-> <<>>]

\* compare_papers_with_ollama once ollama.chat has returned response_text
CompareCall ==
    /\ compare_call.result = EmptyDict
    /\ compare_call' =
           [compare_call EXCEPT !.result =
               ExtractComparison(compare_call.papers, compare_call.response_text,
                                 compare_call.response_text)]
    /\ UNCHANGED << active_workflows, wid, request, pc, ip, papers, results, exc,
                    log, files, now, loop, resp, updates >>

NextCompare == CompareCall

SpecCompare == InitCompare /\ [][NextCompare]_vars

\* ================================================================ claims
Done(t) == pc[t] = "done"
Registered(t) == Started(t) /\ wid[t] \in DOMAIN active_workflows
StateOf(t) == active_workflows[wid[t]]
Terminal(status) == status \in {"completed", "failed"}

IsSearch(e) == e.svc = "search"
IsAnalyze(e) == e.svc = "analyze"
IsSave(e) == e.svc = "save"
SearchRaised(t) == Len(log[t]) > 0 /\ log[t][1].svc = "search" /\ log[t][1].outcome = "raise"
SearchReturned(t, n) ==
    Len(log[t]) > 0 /\ log[t][1].svc = "search" /\ log[t][1].outcome = "return"
    /\ log[t][1].n = n
AnalyzerCalls(t) == SelectSeq(log[t], IsAnalyze)
SaveCalls(t) == SelectSeq(log[t], IsSave)
FilesOf(workflow_id) == {f \in DOMAIN files : f[3] = workflow_id}
PaperKeys == {"papers_found", "papers", "workflow_type"}

\* ---------------------------------------------------------------- C1
\* C1 (as claimed): once start has returned workflow ID w, a status query
\* for w never answers NotFound, and one served before the routine has run
\* its first statement shows Running with progress {0, 0, "Initializing"}.
C1_StatusAfterStart ==
    \A t \in Tasks :
        (Started(t) /\ resp.op = "status" /\ resp.id = wid[t]) =>
            /\ resp.code = 200
            /\ pc[t] = "register" =>
                 /\ resp.body.status = "running"
                 /\ resp.body.progress = Progress("Initializing", 0, 0)

\* ---------------------------------------------------------------- C2
\* what one step may do to the entries of the workflow-state map
C2_TerminalStep ==
    \A id \in DOMAIN active_workflows :
        /\ id \in DOMAIN active_workflows'
        /\ Terminal(active_workflows[id].status) =>
              /\ active_workflows'[id].status = active_workflows[id].status
              /\ active_workflows'[id].results = active_workflows[id].results
              /\ active_workflows'[id].error = active_workflows[id].error
        /\ active_workflows'[id].status # active_workflows[id].status =>
              /\ active_workflows[id].status = "running"
              /\ Terminal(active_workflows'[id].status)

StepKeys(req) ==
    {ResultKey(Dispatch(req)[i].name) :
        i \in {j \in 1..Len(Dispatch(req)) : Dispatch(req)[j].op = "call"}}
    \cup {Dispatch(req)[i].name :
        i \in {j \in 1..Len(Dispatch(req)) : Dispatch(req)[j].op = "synth"}}

RaisingStepFailed(t) ==
    \E i \in 1..Len(log[t]) :
        /\ log[t][i].svc = "analyze"
        /\ log[t][i].arg \in {"summarize", "compare"}
        /\ log[t][i].outcome = "raise"

\* C3 (as claimed): when retrieval returned at least one paper and the model
\* call of the summarize or the compare step fails, the workflow still ends
\* Completed, with the failing step's key and every other step key present.
C3_DegradedStepResilience ==
    \A t \in Tasks :
        (Done(t) /\ RaisingStepFailed(t)) =>
            /\ StateOf(t).status = "completed"
            /\ StepKeys(request[t]) \subseteq DOMAIN StateOf(t).results

\* ---------------------------------------------------------------- C4
\* C4: if the PaperSource call fails, the routine makes no Analyzer call and
\* no ResultStore write, and ends Failed with a non-empty error and a results
\* mapping without any paper-derived key.
C4_RetrievalFailure ==
    \A t \in Tasks :
        SearchRaised(t) =>
            /\ Len(log[t]) = 1
            /\ FilesOf(wid[t]) = {}
            /\ Done(t) =>
                 /\ StateOf(t).status = "failed"
                 /\ StateOf(t).error \notin {None, ""}
                 /\ DOMAIN StateOf(t).results \cap PaperKeys = {}

C4_Witness == \E t \in Tasks : Done(t) /\ SearchRaised(t)

C6_PartialResultsOnFailure ==
    \A t \in Tasks :
        (Done(t) /\ StateOf(t).status = "failed" /\ papers[t] # <<>>) =>
            /\ StateOf(t).error = exc[t]
            /\ {"papers_found", "papers"} \subseteq DOMAIN StateOf(t).results
            /\ \A k \in DOMAIN results[t] :
                  /\ k \in DOMAIN StateOf(t).results
                  /\ StateOf(t).results[k] = results[t][k]

\* ---------------------------------------------------------------- C7
C7_StepWithinTotal ==
    \A id \in DOMAIN active_workflows :
        active_workflows[id].progress.current_step
            <= active_workflows[id].progress.total_steps

C7_StepNotDecreasing ==
    \A id \in DOMAIN active_workflows :
        /\ id \in DOMAIN active_workflows'
        /\ active_workflows'[id].progress.current_step
              >= active_workflows[id].progress.current_step

\* C7: progress.current_step never decreases from one state of a workflow to
\* the next, and never exceeds progress.total_steps.
C7_ProgressMonotonicity == [](C7_StepWithinTotal) /\ [][C7_StepNotDecreasing]_vars

\* a custom workflow with instructions has finished: its progress went
\* 0 of 0, 1 of 5, 2 of 3
C7_Witness ==
    \E t \in Tasks :
        /\ Done(t) /\ request[t].automation_type = "custom_workflow"
        /\ StateOf(t).progress = Progress("Custom Analysis", 2, 3)

\* ---------------------------------------------------------------- C8
\* C8: no state shows a half-applied mutation: a Completed state after a
\* non-empty retrieval already holds the full results mapping (the paper keys
\* and every step key of its type), a Failed state already holds its error
\* text, and a status response is the state as it stands.
C8_ConsistentSnapshot ==
    /\ \A t \in Tasks :
          Registered(t) =>
             /\ (StateOf(t).status = "completed" /\ papers[t] # <<>>) =>
                   /\ StateOf(t).results = results[t]
                   /\ DOMAIN StateOf(t).results = PaperKeys \cup StepKeys(request[t])
             /\ StateOf(t).status = "failed" => StateOf(t).error \notin {None, ""}
    /\ (resp.op = "status" /\ resp.code = 200) =>
          /\ resp.id \in DOMAIN active_workflows
          /\ resp.body.status = active_workflows[resp.id].status
          /\ resp.body.results = active_workflows[resp.id].results
          /\ resp.body.error = active_workflows[resp.id].error
          /\ resp.body.progress = active_workflows[resp.id].progress

\* a status query answered with a Completed state that holds results
C8_Witness ==
    /\ resp.op = "status" /\ resp.code = 200
    /\ resp.body.status = "completed"
    /\ resp.body.results # EmptyDict

\* ---------------------------------------------------------------- C9
\* what a step that serves a status query does
C9_StatusStep ==
    resp'.op = "status" =>
        /\ active_workflows' = active_workflows
        /\ resp'.id \notin DOMAIN active_workflows =>
              /\ resp'.code = 404
              /\ resp'.body = [detail |-> "Workflow not found"]

\* C9: a status query leaves the workflow-state map as it is, and for an ID
\* without an entry it answers NotFound, with no state in the response.
C9_UnknownIdStatus == [][C9_StatusStep]_vars

\* NotFound answered while other workflows have entries
C9_Witness ==
    /\ resp.op = "status" /\ resp.code = 404
    /\ active_workflows # EmptyDict

\* ---------------------------------------------------------------- C10
\* the routine run on its own: the terminal status, error, results and
\* progress that a request, a retrieval outcome and the model calls' outcomes
\* determine
RECURSIVE IsolatedSteps(_, _, _, _, _, _, _)
IsolatedSteps(req, paperlist, kinds, i, k, res, prog) ==
    IF i > Len(Dispatch(req))
    THEN [status |-> "completed", error |-> None, results |-> res, progress |-> prog]
    ELSE LET s == Dispatch(req)[i]
         IN  CASE s.op = "progress" ->
                    IsolatedSteps(req, paperlist, kinds, i + 1, k, res,
                                  Progress(s.name, s.cur, s.total))
               [] s.op = "call" ->
                    LET r == Analyze(s.name, paperlist, req, kinds[k])
                    IN  IF r.raised
                        THEN [status |-> "failed", error |-> r.error,
                              results |-> EmptyDict, progress |-> prog]
                        ELSE IsolatedSteps(req, paperlist, kinds, i + 1, k + 1,
                                 DictSet(res, ResultKey(s.name), r.value), prog)
               [] s.op = "synth" ->
                    IsolatedSteps(req, paperlist, kinds, i + 1, k,
                                  DictSet(res, s.name, Synthesize(s.name, res)), prog)

IsolatedRun(req, lg) ==
    LET searching == Progress("Searching arXiv", 1, 5)
        calls == SelectSeq(lg, IsAnalyze)
        kinds == [i \in 1..Len(calls) |-> calls[i].outcome]
    IN  IF lg[1].outcome = "raise"
        THEN [status |-> "failed", error |-> "500: arXiv search failed",
              results |-> EmptyDict, progress |-> searching]
        ELSE IF lg[1].n = 0
        THEN [status |-> "completed", error |-> "No papers found for the given query",
              results |-> EmptyDict, progress |-> searching]
        ELSE IsolatedSteps(req, PaperList(req.query, lg[1].n), kinds, 1, 1,
                 [papers_found |-> lg[1].n,
                  papers |-> PaperList(req.query, lg[1].n),
                  workflow_type |-> req.automation_type],
                 searching)

\* C10: whatever the other workflows do, a finished workflow holds the
\* terminal state its own request and its own PaperSource / Analyzer outcomes
\* determine, and its results hold only papers of its own query.
C10_WorkflowIndependence ==
    \A t \in Tasks :
        Done(t) =>
            LET own == IsolatedRun(request[t], log[t])
            IN  /\ StateOf(t).status = own.status
                /\ StateOf(t).error = own.error
                /\ StateOf(t).results = own.results
                /\ StateOf(t).progress = own.progress
                /\ "papers" \in DOMAIN StateOf(t).results =>
                      \A i \in 1..Len(StateOf(t).results["papers"]) :
                          StateOf(t).results["papers"][i] = Paper(request[t].query, i)

\* two workflows of different types and queries both finished with results
C10_Witness ==
    \E t, u \in Tasks :
        /\ Done(t) /\ Done(u)
        /\ request[t].query # request[u].query
        /\ request[t].automation_type # request[u].automation_type
        /\ StateOf(t).status = "completed" /\ StateOf(t).results # EmptyDict
        /\ StateOf(u).status = "completed" /\ StateOf(u).results # EmptyDict

\* ---------------------------------------------------------------- C11
\* C11: a workflow that retrieved papers and finished its steps attempts the
\* ResultStore write exactly once, after its last step and before its state
\* becomes Completed, and a written document equals the results of the
\* Completed state; a workflow that ends Failed or found no papers attempts
\* no write.
C11_PersistThenComplete ==
    \A t \in Tasks :
        /\ Len(SaveCalls(t)) <= 1
        /\ SaveCalls(t) # <<>> =>
              /\ log[t][Len(log[t])].svc = "save"
              /\ pc[t] \in {"complete", "done"}
              /\ papers[t] # <<>>
              /\ DOMAIN results[t] = PaperKeys \cup StepKeys(request[t])
              /\ pc[t] = "complete" => StateOf(t).status = "running"
        /\ (Registered(t) /\ StateOf(t).status = "completed" /\ papers[t] # <<>>) =>
              /\ Len(SaveCalls(t)) = 1
              /\ SaveCalls(t)[1].outcome = "written" =>
                    /\ SaveCalls(t)[1].arg \in DOMAIN files
                    /\ files[SaveCalls(t)[1].arg] = StateOf(t).results
        /\ (Done(t) /\ (StateOf(t).status = "failed" \/ papers[t] = <<>>)) =>
              /\ SaveCalls(t) = <<>>
              /\ FilesOf(wid[t]) = {}

\* a workflow has completed after its results were written
C11_Witness ==
    \E t \in Tasks :
        /\ Done(t) /\ StateOf(t).status = "completed"
        /\ Len(SaveCalls(t)) = 1 /\ SaveCalls(t)[1].outcome = "written"

\* ---------------------------------------------------------------- C12
\* C12: when the ResultStore write fails, the workflow still ends Completed,
\* never Failed, with the results, error and progress of the same run with a
\* successful write (the routine run on its own, which no write outcome
\* enters).
C12_PersistenceFailureNonFatal ==
    \A t \in Tasks :
        (SaveCalls(t) # <<>> /\ SaveCalls(t)[1].outcome = "error") =>
            /\ pc[t] \in {"complete", "done"}
            /\ StateOf(t).status # "failed"
            /\ Done(t) =>
                 /\ StateOf(t).status = "completed"
                 /\ StateOf(t).results = IsolatedRun(request[t], log[t]).results
                 /\ StateOf(t).error = None
                 /\ StateOf(t).progress = IsolatedRun(request[t], log[t]).progress

\* a workflow has finished after its write failed
C12_Witness ==
    \E t \in Tasks :
        Done(t) /\ SaveCalls(t) # <<>> /\ SaveCalls(t)[1].outcome = "error"

C14_EventualTerminality ==
    \A t \in Tasks :
        Started(t) ~> (Registered(t) /\ Terminal(StateOf(t).status))

\* a started workflow has returned from its routine in a terminal state
C14_Witness ==
    \E t \in Tasks :
        Done(t) /\ Registered(t) /\ Terminal(StateOf(t).status)

\* ---------------------------------------------------------------- C15
\* C15: every entry of the workflow-state map is created and mutated by
\* exactly one execution routine: start never hands out an ID that already
\* has an entry, so no second routine re-initializes or overwrites it.
C15_SingleWriter ==
    \A workflow_id \in DOMAIN active_workflows :
        Cardinality({t \in Tasks : pc[t] \notin {"idle", "register"}
                                   /\ wid[t] = workflow_id}) = 1

\* ---------------------------------------------------------------- C16
\* the whole output is the JSON text of a list of six-field records
IsSixFieldList(text) ==
    /\ json_loads(text).ok /\ json_loads(text).list
    /\ \A i \in 1..Len(json_loads(text).items) :
          /\ json_loads(text).items[i].dict
          /\ DOMAIN json_loads(text).items[i].fields = ComparisonFields

\* C16: for every model output and non-empty paper list: if the output is
\* valid JSON for a list of six-field records the comparison table equals
\* that list field for field; for every other output (no JSON array,
\* malformed JSON, a JSON list whose elements are not six-field records) the
\* table has one placeholder record per paper, in paper order, and
\* comparison_text is the raw output.
C16_ComparisonParsing ==
    (compare_call.result # EmptyDict /\ ~compare_call.result.raised) =>
        IF IsSixFieldList(compare_call.response_text)
        THEN compare_call.result.value.comparison_table =
                 [i \in 1..Len(json_loads(compare_call.response_text).items) |->
                     json_loads(compare_call.response_text).items[i].fields]
        ELSE compare_call.result.value =
                 _create_manual_comparison(compare_call.papers,
                                           compare_call.response_text)

\* ---------------------------------------------------------------- C17
\* the step kind a reported step name stands for
StepKind(step_name) ==
    CASE step_name = "Searching arXiv" -> "search"
      [] step_name = "Generating Summary" -> "summarize"
      [] step_name \in {"Comparing Papers", "Detailed Comparison"} -> "compare"
      [] step_name = "Analyzing Gaps" -> "gap_analysis"
      [] step_name = "Finalizing" -> "synthesize"
      [] step_name = "Generating Recommendations" -> "recommendations"
      [] step_name = "Methodology Analysis" -> "methodology_analysis"
      [] step_name = "Trend Analysis" -> "trend_analysis"
      [] step_name = "Future Directions" -> "future_directions"
      [] step_name = "Custom Analysis" -> "custom_analysis"
      [] OTHER -> "none"

\* C17: for every non-custom type the registry's ordered list of step kinds
\* agrees with the steps the type's routine runs and reports: the k-th step
\* reported is the registry's k-th kind, and a run that finishes its steps
\* has reported as many steps as the registry lists.
C17_RegistryConsistency ==
    \A t \in Tasks :
        (Registered(t) /\ request[t].automation_type # "custom_workflow") =>
            LET steps == AUTOMATION_WORKFLOWS[request[t].automation_type].steps
                progress == StateOf(t).progress
            IN  /\ progress.current_step >= 1 =>
                     /\ progress.current_step <= Len(steps)
                     /\ steps[progress.current_step] = StepKind(progress.step_name)
                /\ (StateOf(t).status = "completed" /\ papers[t] # <<>>) =>
                     progress.current_step = Len(steps)

\* ---------------------------------------------------------------- C18
\* a step that creates or changes the entry of workflow_id
Mutates(workflow_id) ==
    /\ workflow_id \in DOMAIN active_workflows'
    /\ \/ workflow_id \notin DOMAIN active_workflows
       \/ active_workflows'[workflow_id] # active_workflows[workflow_id]

C18_UpdatedAtEveryMutation ==
    \A workflow_id \in Ids :
        Mutates(workflow_id) => active_workflows'[workflow_id].updated_at = now'

C18_CreatedOnce ==
    \A workflow_id \in DOMAIN active_workflows :
        /\ workflow_id \in DOMAIN active_workflows'
        /\ active_workflows'[workflow_id].created_at = active_workflows[workflow_id].created_at
        /\ active_workflows'[workflow_id].created_at <= active_workflows'[workflow_id].updated_at

\* C18: every mutation of a workflow state (each progress update, each
\* transition, the zero-papers completion included) sets updated-at to the
\* time of that mutation; created-at is set once, never changes, and is at
\* most updated-at.
C18_Timestamps == [][C18_UpdatedAtEveryMutation /\ C18_CreatedOnce]_vars

\* ---------------------------------------------------------------- C19
\* the step count of each type, as the type's routine declares it
StepCount(type) ==
    CASE type = "literature_review" -> 5
      [] type = "research_gap_analysis" -> 4
      [] type = "methodology_comparison" -> 3
      [] type = "trend_analysis" -> 3
      [] type = "custom_workflow" -> 3

C19_TotalPerType ==
    \A t \in Tasks :
        (Registered(t) /\ StateOf(t).progress.current_step >= 1) =>
            IF request[t].automation_type = "custom_workflow"
            THEN StateOf(t).progress.total_steps <= StepCount("custom_workflow")
            ELSE StateOf(t).progress.total_steps = StepCount(request[t].automation_type)

C19_IndexOrder ==
    \A t \in Tasks :
        (Registered(t) /\ StateOf(t)'.progress # StateOf(t).progress) =>
            /\ StateOf(t)'.progress.current_step = StateOf(t).progress.current_step + 1
            /\ StateOf(t).progress.current_step >= 1 =>
                  StateOf(t)'.progress.total_steps = StateOf(t).progress.total_steps

\* C19: every progress update of a workflow of type T, the search step
\* included, reports total_steps equal to T's own step count (5, 4, 3, 3,
\* custom at most 3); the step indices reported are 1, 2, ... without gaps,
\* and total_steps does not change between two updates of one workflow.
C19_StepTotals == [](C19_TotalPerType) /\ [][C19_IndexOrder]_vars

\* ---------------------------------------------------------------- C20
\* the Analyzer calls of a fully successful run, per type
ExpectedCalls(req) ==
    CASE req.automation_type = "literature_review" ->
             << "summarize", "compare", "gap_analysis" >>
      [] req.automation_type = "research_gap_analysis" -> << "compare", "gap_analysis" >>
      [] req.automation_type = "methodology_comparison" -> << "compare" >>
      [] req.automation_type = "trend_analysis" -> << "trend_analysis" >>
      [] req.automation_type = "custom_workflow" ->
             IF req.custom_instructions \in {None, ""} THEN << >> ELSE << "custom" >>

CallArgs(t) == [i \in 1..Len(AnalyzerCalls(t)) |-> AnalyzerCalls(t)[i].arg]

\* C20: no Analyzer call is made before PaperSource returned a non-empty
\* list; the Analyzer calls of a run that completes with papers are exactly
\* the list of its type, in order (custom: one call iff non-empty
\* instructions); the synthesis steps add no call and never fail the
\* workflow: the except handler is entered only from a raising call.
C20_AnalyzerCallProtocol ==
    \A t \in Tasks :
        /\ AnalyzerCalls(t) # <<>> =>
              /\ log[t][1].svc = "search" /\ log[t][1].outcome = "return"
              /\ log[t][1].n > 0
              /\ papers[t] # <<>>
        /\ (Registered(t) /\ StateOf(t).status = "completed" /\ papers[t] # <<>>) =>
              CallArgs(t) = ExpectedCalls(request[t])
        /\ pc[t] = "except" =>
              /\ log[t] # <<>>
              /\ log[t][Len(log[t])].svc \in {"search", "analyze"}
              /\ log[t][Len(log[t])].outcome = "raise"

\* a gap analysis has completed after two Analyzer calls and its synthesis
C20_Witness ==
    \E t \in Tasks :
        /\ Done(t) /\ StateOf(t).status = "completed"
        /\ request[t].automation_type = "research_gap_analysis"
        /\ Len(AnalyzerCalls(t)) = 2
        /\ "recommendations" \in DOMAIN StateOf(t).results

\* ---------------------------------------------------------------- C21
\* the tasks whose model-call failure is caught inside the analysis function,
\* and the text each returns then
LocallyCaught == {"gap_analysis", "trend_analysis", "custom"}

FailureHead(task) ==
    CASE task = "gap_analysis" -> "Gap analysis failed"
      [] task = "trend_analysis" -> "Trend analysis failed"
      [] task = "custom" -> "Custom analysis failed"

LocalFailures(t) ==
    {i \in 1..Len(log[t]) :
        /\ log[t][i].svc = "analyze" /\ log[t][i].outcome = "raise"
        /\ log[t][i].arg \in LocallyCaught}

\* C21: when the model call of the gap-analysis, trend-analysis or custom
\* step fails, the step returns a failure text that is stored under the
\* step's key, the routine does not enter its except handler, the remaining
\* steps and the ResultStore write still run, and the workflow ends
\* Completed with no error.
C21_LocallyCaughtFailures ==
    \A t \in Tasks : \A i \in LocalFailures(t) :
        LET key == ResultKey(log[t][i].arg)
        IN  /\ pc[t] # "except"
            /\ key \in DOMAIN results[t]
            /\ results[t][key] = << FailureHead(log[t][i].arg), papers[t] >>
            /\ StateOf(t).status # "failed"
            /\ Done(t) =>
                 /\ StateOf(t).status = "completed"
                 /\ StateOf(t).error = None
                 /\ StateOf(t).results[key] = << FailureHead(log[t][i].arg), papers[t] >>
                 /\ StepKeys(request[t]) \subseteq DOMAIN StateOf(t).results
                 /\ Len(SaveCalls(t)) = 1

\* a workflow has finished after the model call of its gap analysis failed
C21_Witness ==
    \E t \in Tasks :
        /\ Done(t)
        /\ \E i \in LocalFailures(t) : log[t][i].arg = "gap_analysis"

\* ---------------------------------------------------------------- C22
IsCustom(t) == Started(t) /\ request[t].automation_type = "custom_workflow"
HasInstructions(t) == request[t].custom_instructions \notin {None, ""}

\* C22: a custom workflow that retrieved papers calls the Analyzer and
\* writes custom_analysis if and only if non-empty instructions were
\* supplied; without instructions the request is accepted, the workflow ends
\* Completed, is persisted with the paper-derived keys only, and its
\* progress never goes past the search step.
C22_CustomWorkflow ==
    \A t \in Tasks :
        IsCustom(t) =>
            /\ (resp.op = "start" /\ resp.id = wid[t]) => resp.code = 200
            /\ AnalyzerCalls(t) # <<>> => HasInstructions(t)
            /\ "custom_analysis" \in DOMAIN results[t] => HasInstructions(t)
            /\ (Registered(t) /\ ~HasInstructions(t)) =>
                  StateOf(t).progress.current_step <= 1
            /\ (Done(t) /\ papers[t] # <<>> /\ HasInstructions(t)) =>
                  /\ CallArgs(t) = << "custom" >>
                  /\ StateOf(t).status = "completed"
                  /\ DOMAIN StateOf(t).results = PaperKeys \cup {"custom_analysis"}
            /\ (Done(t) /\ papers[t] # <<>> /\ ~HasInstructions(t)) =>
                  /\ StateOf(t).status = "completed"
                  /\ DOMAIN StateOf(t).results = PaperKeys
                  /\ Len(SaveCalls(t)) = 1
                  /\ \A f \in FilesOf(wid[t]) : DOMAIN files[f] = PaperKeys

\* a custom workflow with an empty instruction string has finished with
\* papers and its results were written
C22_Witness ==
    \E t \in Tasks :
        /\ IsCustom(t) /\ Done(t) /\ papers[t] # <<>>
        /\ request[t].custom_instructions = ""
        /\ FilesOf(wid[t]) # {}

\* ---------------------------------------------------------------- C23
\* the step keys of each non-custom type
TypeKeys(type) ==
    CASE type = "literature_review" ->
             {"summary", "comparison", "gap_analysis", "key_findings"}
      [] type = "research_gap_analysis" -> {"comparison", "gap_analysis", "recommendations"}
      [] type = "methodology_comparison" -> {"comparison", "methodology_insights"}
      [] type = "trend_analysis" -> {"trend_analysis", "future_directions"}

\* C23: a non-custom workflow that is Completed after retrieving papers
\* holds the paper-derived keys (papers_found = the number of entries of
\* papers, workflow_type = the request's type) and exactly the step keys of
\* its type.
C23_ResultKeysPerType ==
    \A t \in Tasks :
        (Registered(t) /\ StateOf(t).status = "completed" /\ papers[t] # <<>>
         /\ request[t].automation_type # "custom_workflow") =>
            LET res == StateOf(t).results
            IN  /\ DOMAIN res = PaperKeys \cup TypeKeys(request[t].automation_type)
                /\ res["papers"] = papers[t]
                /\ res["papers_found"] = Len(res["papers"])
                /\ res["workflow_type"] = request[t].automation_type

\* a trend analysis is Completed with results
C23_Witness ==
    \E t \in Tasks :
        /\ Done(t) /\ StateOf(t).status = "completed" /\ papers[t] # <<>>
        /\ request[t].automation_type = "trend_analysis"

\* ---------------------------------------------------------------- C24
\* task t has registered its state and not yet made its terminal transition
MidRun(t) == pc[t] \notin {"idle", "register", "done"}

C24_OneAtATime ==
    /\ \A t \in Tasks : MidRun(t) => loop = t
    /\ \A t, u \in Tasks : (MidRun(t) /\ MidRun(u)) => t = u
    /\ resp.op = "status" => (resp.code = 404 \/ Terminal(resp.body.status))

\* while a routine is between registration and its terminal transition the
\* step taken is its own: no endpoint is served, no other routine moves
C24_NoInterleaving ==
    \A t \in Tasks :
        MidRun(t) =>
            /\ resp' = NoResp
            /\ \A u \in Tasks \ {t} : pc'[u] = pc[u]
            /\ pc'[t] # pc[t] \/ ip'[t] # ip[t]

\* C24: the execution routine never yields the scheduler between
\* registering the Running state and its terminal transition: no status
\* query and no step of another workflow is served in between, every status
\* response is NotFound or a terminal state, and workflows run one after
\* another.
C24_AtomicExecution == [](C24_OneAtATime) /\ [][C24_NoInterleaving]_vars

\* a status query has been answered with a terminal state while a second
\* workflow, started before the first one ran, still waits for the loop
C24_Witness ==
    \E t, u \in Tasks :
        /\ Done(t) /\ pc[u] = "register"
        /\ resp.op = "status" /\ resp.id = wid[t] /\ resp.code = 200

\* ---------------------------------------------------------------- C25
C25_FinalProgress ==
    \A t \in Tasks :
        /\ (Registered(t) /\ StateOf(t).status = "completed" /\ papers[t] # <<>>
            /\ request[t].automation_type # "custom_workflow") =>
              /\ StateOf(t).progress.current_step = StepCount(request[t].automation_type)
              /\ StateOf(t).progress.total_steps = StepCount(request[t].automation_type)
        /\ (Registered(t) /\ StateOf(t).status = "failed") =>
              LET last == log[t][Len(log[t])]
              IN  /\ last.outcome = "raise"
                  /\ StepKind(StateOf(t).progress.step_name) =
                        IF last.svc = "search" THEN "search" ELSE last.arg

C25_FailureKeepsProgress ==
    \A t \in Tasks :
        (Registered(t) /\ StateOf(t)'.status = "failed" /\ StateOf(t).status # "failed") =>
            StateOf(t)'.progress = StateOf(t).progress

\* C25: a non-custom workflow that is Completed after retrieving papers
\* shows current_step = total_steps = its type's step count (5, 4, 3, 3);
\* the transition to Failed leaves the progress unchanged, so a Failed state
\* names the step whose call failed.
C25_FinalAndFailedProgress == [](C25_FinalProgress) /\ [][C25_FailureKeepsProgress]_vars

\* a workflow has failed in its comparison step
C25_Witness ==
    \E t \in Tasks :
        /\ Done(t) /\ StateOf(t).status = "failed"
        /\ log[t][Len(log[t])].svc = "analyze" /\ log[t][Len(log[t])].arg = "compare"
        /\ StateOf(t).progress.current_step >= 2

\* ---------------------------------------------------------------- C26
C26_NamesCarryId ==
    \A t \in Tasks :
        /\ Len(SaveCalls(t)) <= 1
        /\ \A i \in 1..Len(SaveCalls(t)) : SaveCalls(t)[i].arg[3] = wid[t]
        /\ \A u \in Tasks \ {t} :
              (Started(t) /\ Started(u) /\ wid[t] # wid[u]) =>
                  \A i \in 1..Len(SaveCalls(t)), j \in 1..Len(SaveCalls(u)) :
                      SaveCalls(t)[i].arg # SaveCalls(u)[j].arg

C26_NeverOverwritten ==
    \A f \in DOMAIN files : f \in DOMAIN files' /\ files'[f] = files[f]

\* C26: the name of a persisted record contains the workflow's ID, so two
\* workflows with distinct IDs never write the same record, even for the
\* same query and timestamp; each workflow writes at most once, and a
\* record once written is never overwritten.
C26_PersistedRecordIdentity == [](C26_NamesCarryId) /\ [][C26_NeverOverwritten]_vars

\* two workflows whose queries give the same name part have both written
\* their record at the same clock value
C26_Witness ==
    \E t, u \in Tasks :
        /\ t # u /\ Done(t) /\ Done(u)
        /\ request[t].query # request[u].query
        /\ FilesOf(wid[t]) # {} /\ FilesOf(wid[u]) # {}
        /\ \E f \in FilesOf(wid[t]), g \in FilesOf(wid[u]) : f[1] = g[1] /\ f[2] = g[2]

\* ---------------------------------------------------------------- C27
\* the records of the array the text holds between its first "[" and its
\* last "]", when that part is a JSON array
Bracketed(text) ==
    Slice(text, find(text, {"lbr", "lbr_deep"}), rfind(text, {"rbr"}) + 1)

ParsedPath(text) ==
    /\ find(text, {"lbr", "lbr_deep"}) # -1
    /\ json_loads(Bracketed(text)).ok /\ json_loads(Bracketed(text)).list

ParsedItems(text) == SelectSeq(json_loads(Bracketed(text)).items, IsDict)

C27_SixFields ==
    (compare_call.result # EmptyDict /\ ~compare_call.result.raised) =>
        LET table == compare_call.result.value.comparison_table
        IN  /\ \A i \in 1..Len(table) : DOMAIN table[i] = ComparisonFields
            /\ ~ParsedPath(compare_call.response_text) =>
                  Len(table) = Len(compare_call.papers)
            /\ ParsedPath(compare_call.response_text) =>
                  /\ Len(table) = Len(ParsedItems(compare_call.response_text))
                  /\ \A i \in 1..Len(table) : \A f \in ComparisonFields :
                        LET item == ParsedItems(compare_call.response_text)[i].fields
                        IN  table[i][f] = IF f \in DOMAIN item THEN item[f] ELSE T("N/A")

\* C27: whenever the model call returns text, the compare operation returns
\* a result without raising, and every record of the returned table, parsed
\* or fallback, has exactly the six fixed fields, a parsed record's missing
\* fields filled with "N/A" and its unknown fields dropped.
C27_ShapeAndTotality ==
    compare_call.result # EmptyDict =>
        /\ ~compare_call.result.raised
        /\ C27_SixFields

\* ---------------------------------------------------------------- C28
C28_EntryKept ==
    /\ \A workflow_id \in DOMAIN active_workflows : workflow_id \in DOMAIN active_workflows'
    /\ \A workflow_id \in DOMAIN active_workflows :
          (resp'.op = "status" /\ resp'.id = workflow_id) => resp'.code = 200

\* C28: an ID that has an entry in the workflow-state map has one in every
\* later state: no operation removes an entry, so a status query for an ID
\* that has an entry is never answered NotFound.
C28_Retention == [][C28_EntryKept]_vars

\* a status query for a finished workflow has been answered with its state
C28_Witness ==
    \E t \in Tasks :
        /\ Done(t) /\ Registered(t)
        /\ resp.op = "status" /\ resp.id = wid[t] /\ resp.code = 200

\* ---------------------------------------------------------------- C29
\* two requests that differ in the include_* fields at most
SameButToggles(r1, r2) ==
    [r1 EXCEPT !.toggles = DefaultToggles] = [r2 EXCEPT !.toggles = DefaultToggles]

\* what PaperSource and the Analyzer answered to task t, call by call
Outcomes(t) ==
    LET calls == SelectSeq(log[t], LAMBDA e : IsSearch(e) \/ IsAnalyze(e))
    IN  [i \in 1..Len(calls) |-> << calls[i].svc, calls[i].outcome, calls[i].n >>]

\* t and u met the same outcomes: call by call the services answered alike,
\* as far as both asked
SameOutcomes(t, u) ==
    \A i \in 1..Len(Outcomes(t)) :
        i <= Len(Outcomes(u)) => Outcomes(t)[i] = Outcomes(u)[i]

\* C29: two finished workflows whose requests differ only in
\* include_summary, include_comparison or include_trends and that met the
\* same PaperSource and Analyzer outcomes wrote the same sequence of progress
\* updates, made the same Analyzer calls, and ended in the same terminal
\* status with the same result keys.
C29_TogglesInert ==
    \A t, u \in Tasks :
        (Done(t) /\ Done(u) /\ SameButToggles(request[t], request[u])
         /\ SameOutcomes(t, u)) =>
            /\ updates[t] = updates[u]
            /\ CallArgs(t) = CallArgs(u)
            /\ StateOf(t).status = StateOf(u).status
            /\ DOMAIN StateOf(t).results = DOMAIN StateOf(u).results

\* two literature reviews, one with include_summary off, both completed
\* after the same outcomes
C29_Witness ==
    \E t, u \in Tasks :
        /\ Done(t) /\ Done(u)
        /\ request[t].automation_type = "literature_review"
        /\ request[t].toggles = DefaultToggles
        /\ request[u].toggles = [DefaultToggles EXCEPT !.include_summary = FALSE]
        /\ SameButToggles(request[t], request[u])
        /\ SameOutcomes(t, u)
        /\ StateOf(t).status = "completed" /\ Len(updates[t]) = 5

\* ---------------------------------------------------------------- C30
\* the step-sequence routine written for each workflow type
RoutineOf(req) ==
    CASE req.automation_type = "literature_review" -> _execute_literature_review
      [] req.automation_type = "research_gap_analysis" -> _execute_gap_analysis
      [] req.automation_type = "methodology_comparison" -> _execute_methodology_comparison
      [] req.automation_type = "trend_analysis" -> _execute_trend_analysis
      [] req.automation_type = "custom_workflow" -> _execute_custom_workflow(req)

\* the progress dicts a statement list writes, in order
ProgressOf(stmts) ==
    LET ps == SelectSeq(stmts, LAMBDA st : st.op = "progress")
    IN  [i \in 1..Len(ps) |-> Progress(ps[i].name, ps[i].cur, ps[i].total)]

\* the results keys a statement list stores
KeysOf(stmts) ==
    {ResultKey(stmts[i].name) : i \in {k \in 1..Len(stmts) : stmts[k].op = "call"}}
    \cup {stmts[i].name : i \in {k \in 1..Len(stmts) : stmts[k].op = "synth"}}

\* every type has a registry entry with a name, a description and a
\* non-empty step list that starts with search
C30_RegistryTotal ==
    /\ DOMAIN AUTOMATION_WORKFLOWS = AutomationType
    /\ \A type \in AutomationType :
          LET entry == AUTOMATION_WORKFLOWS[type]
          IN  /\ DOMAIN entry = {"name", "description", "steps"}
              /\ entry.name # "" /\ entry.description # ""
              /\ Len(entry.steps) > 0
              /\ entry.steps[1] = "search"

\* a workflow that has left its step routine without an exception has run
\* the statements of the routine of its type, all of them and no others
C30_DispatchTotal ==
    \A t \in Tasks :
        (pc[t] \in {"save", "complete"} \/
         (Done(t) /\ StateOf(t).status = "completed" /\ papers[t] # <<>>)) =>
            LET routine == RoutineOf(request[t])
            IN  /\ request[t].automation_type \in AutomationType
                /\ ip[t] = Len(routine) + 1
                /\ updates[t] = << Progress("Searching arXiv", 1, 5) >> \o ProgressOf(routine)
                /\ CallArgs(t) = [i \in 1..Len(SelectSeq(routine, LAMBDA st : st.op = "call")) |->
                                     SelectSeq(routine, LAMBDA st : st.op = "call")[i].name]
                /\ DOMAIN results[t] = PaperKeys \cup KeysOf(routine)

\* C30: every value of the workflow-type enumeration has a registry entry
\* with a name, a description and a non-empty step list whose first step is
\* search, and execute dispatches every value to the one step routine of its
\* type: no type passes the dispatch without running its steps.
C30_EnumTotality == C30_RegistryTotal /\ C30_DispatchTotal

\* a custom workflow with instructions is Completed after its custom analysis
C30_Witness ==
    \E t \in Tasks :
        /\ Done(t) /\ StateOf(t).status = "completed" /\ papers[t] # <<>>
        /\ request[t].automation_type = "custom_workflow"
        /\ request[t].custom_instructions = "instr"
        /\ "custom_analysis" \in DOMAIN StateOf(t).results
        /\ Len(updates[t]) = 2

====
